---- MODULE Spec2Model ----
(***************************************************************************)
(* A model of the NixVixa website chatbot: the Flask serving layer         *)
(* (src/app.py: BotInitializer, get_bot, the request handlers) and the     *)
(* retrieval-and-response core (src/chatbot.py: WebsiteChatbot).           *)
(*                                                                         *)
(* Specifications:                                                         *)
(*   SpecChunk    split_chunks over a text of cleaned sentences            *)
(***************************************************************************)
EXTENDS Integers, Sequences, FiniteSets, TLC

VARIABLES
    \* ---- split_chunks (src/chatbot.py:260-298) ----
    sc_pc,            \* "idle" | "loop" | "flush" | "done"
    sc_text,          \* the sentences re.split produced, each already clean_text'ed
    sc_min, sc_max,   \* min_len, max_len
    sc_i,             \* index of the next sentence of the for loop
    current_chunk,    \* indices (into sc_text) of the sentences accumulated
    current_length,   \* running word count
    sc_chunks,        \* the chunks returned: each a sequence of sentence indices
    \* ---- load_data (src/chatbot.py:300-367) on one WebsiteChatbot ----
    bot,              \* the WebsiteChatbot object: a record, see FreshBot
    site,             \* the world: what each URL serves when the fetch succeeds
    ld_pc,            \* "idle" | "urls" | "dedup" | "fit" | "done" | "raised"
    ld_i,             \* index of the next URL of `for idx, url in enumerate(self.urls, 1)`
    all_chunks,       \* all_chunks
    failed_urls,      \* failed_urls
    ld_error,         \* the exception load_data raised, or None
    \* ---- retrieve_relevant_chunks (src/chatbot.py:369-399) on `bot` ----
    rt_pc,            \* "idle" | "call" | "loop" | "done" | "raised"
    rt_query,         \* the terms the vectorizer's analyzer finds in the query
    rt_k, rt_min,     \* k, min_score
    similarities,     \* cosine_similarity(query_vec, tfidf_matrix).flatten()
    top_indices,      \* np.argsort(similarities)[-k*3:][::-1]
    rt_j,             \* position of the `for idx in top_indices` loop
    results,          \* results: records of chunk, score and the chunk's index
    seen_content,     \* seen_content
    \* ---- generate_response (src/chatbot.py:532-619) on `bot` ----
    gr_pc,            \* "idle" | "call" | "done"
    gr_msg,           \* user_text: a sequence of words
    gr_out,           \* what the call gave: raised, and the response
    gr_n,             \* the queries answered so far
    \* ---- the serving process (src/app.py) ----
    initialization_lock,  \* 0, or the initializer thread inside `with initialization_lock`
    is_initializing,      \* the module's global flag
    bot_initializer,      \* bot (0 for None, or the heap object), initialized, initialization_time, error
    heap,                 \* the WebsiteChatbot objects, by the thread that constructed them
    thr,                  \* the initializer threads, by the request that spawned them
    req,                  \* the requests (and the startup thread)
    response_cache,       \* cache key -> (cached_time, response)
    now                   \* time.time(), in ticks

chunkVars == <<sc_pc, sc_text, sc_min, sc_max, sc_i, current_chunk, current_length, sc_chunks>>

loadVars == <<bot, site, ld_pc, ld_i, all_chunks, failed_urls, ld_error>>

retrVars == <<rt_pc, rt_query, rt_k, rt_min, similarities, top_indices, rt_j, results, seen_content>>

routeVars == <<gr_pc, gr_msg, gr_out, gr_n>>

appVars ==
    <<initialization_lock, is_initializing, bot_initializer, heap, thr, req, response_cache, now>>

vars == <<chunkVars, loadVars, retrVars, routeVars, appVars>>

\* Python's None where the other values are strings (a URL, an error message).
None == "None"

\* An attribute that is None or holds a value: the empty sequence or <<value>>.
Nothing == <<>>

Some(x) == <<x>>

Value(o) == o[1]

(***************************************************************************)
(* Generic helpers                                                         *)
(***************************************************************************)
RECURSIVE SumSeq(_)
SumSeq(s) == IF s = <<>> THEN 0 ELSE Head(s) + SumSeq(Tail(s))

SeqsUpTo(S, n) == UNION {[1..m -> S] : m \in 0..n}

(***************************************************************************)
(* The chunker: is_meaningful_content and split_chunks                     *)
(***************************************************************************)
\* Bounds of the chunker's inputs.
MaxSentences == 4

\* A cleaned sentence, by what split_chunks and is_meaningful_content read of
\* it: its length in characters, its word count, its alphanumeric characters
\* and whether it contains one of the excluded phrases.
Sentence(c, w, a, x) == [chars |-> c, words |-> w, alnum |-> a, excl |-> x]

SentenceKinds ==
    { Sentence(0, 0, 0, FALSE),      \* nothing left after clean_text
      Sentence(6, 1, 5, FALSE),      \* shorter than 10 characters: skipped
      Sentence(12, 2, 10, FALSE),
      Sentence(30, 3, 26, FALSE),
      Sentence(30, 3, 8, FALSE),     \* mostly symbols
      Sentence(30, 3, 26, TRUE),     \* holds "click here"
      Sentence(40, 6, 34, FALSE) }   \* a long sentence

MinLenChoices == {2, 3}
MaxLenChoices == {4, 5}

MinSentenceChars == 10
MaxSentencesPerChunk == 3
MinMeaningfulChars == 25
MinMeaningfulWords == 3

\* ' '.join(current_chunk): the text of a chunk given as sentence indices.
ChunkChars(text, c) ==
    IF c = <<>> THEN 0
    ELSE SumSeq([j \in 1..Len(c) |-> text[c[j]].chars]) + (Len(c) - 1)

ChunkWords(text, c) == SumSeq([j \in 1..Len(c) |-> text[c[j]].words])

ChunkAlnum(text, c) == SumSeq([j \in 1..Len(c) |-> text[c[j]].alnum])

ChunkExcluded(text, c) == \E j \in 1..Len(c) : text[c[j]].excl

is_meaningful_content(text, c) ==
    /\ ChunkChars(text, c) >= MinMeaningfulChars
    /\ ~ChunkExcluded(text, c)
    /\ ChunkWords(text, c) >= MinMeaningfulWords
    /\ 2 * ChunkAlnum(text, c) >= ChunkChars(text, c)      \* alnum / len >= 0.5

\* `if not clean_sentence or len(clean_sentence) < 10: continue`
SkippedSentence(s) == s.chars = 0 \/ s.chars < MinSentenceChars

\* `current_length + sentence_length <= max_len and len(current_chunk) < 3`
FitsCurrent(len, n, w, max) == len + w <= max /\ n < MaxSentencesPerChunk

\* The close-out of lines 282-286 and 292-296: the chunks after the
\* accumulated candidate has been offered.
CloseOut(text, chunks, cur, len, min) ==
    IF cur # <<>> /\ len >= min /\ is_meaningful_content(text, cur)
    THEN Append(chunks, cur)
    ELSE chunks

ChunkIdle ==
    /\ sc_pc = "idle" /\ sc_text = <<>> /\ sc_min = 0 /\ sc_max = 0 /\ sc_i = 0
    /\ current_chunk = <<>> /\ current_length = 0 /\ sc_chunks = <<>>

ChunkInit ==
    /\ sc_pc = "loop"
    /\ sc_text \in SeqsUpTo(SentenceKinds, MaxSentences)
    /\ sc_min \in MinLenChoices
    /\ sc_max \in MaxLenChoices
    /\ sc_i = 1
    /\ current_chunk = <<>>
    /\ current_length = 0
    /\ sc_chunks = <<>>

\* What the chunker's steps leave alone.
ChunkFrame == UNCHANGED <<loadVars, retrVars, routeVars, appVars>>

\* `if not text: return []`
SplitEmpty ==
    /\ sc_pc = "loop" /\ sc_text = <<>>
    /\ sc_pc' = "done"
    /\ UNCHANGED <<sc_text, sc_min, sc_max, sc_i, current_chunk, current_length, sc_chunks>>
    /\ ChunkFrame

\* One iteration of `for sentence in sentences`.
SplitStep ==
    /\ sc_pc = "loop" /\ sc_text # <<>> /\ sc_i <= Len(sc_text)
    /\ LET s == sc_text[sc_i] IN
         IF SkippedSentence(s)
         THEN UNCHANGED <<current_chunk, current_length, sc_chunks>>
         ELSE IF FitsCurrent(current_length, Len(current_chunk), s.words, sc_max)
         THEN /\ current_chunk' = Append(current_chunk, sc_i)
              /\ current_length' = current_length + s.words
              /\ UNCHANGED sc_chunks
         ELSE /\ sc_chunks' = CloseOut(sc_text, sc_chunks, current_chunk, current_length, sc_min)
              /\ current_chunk' = <<sc_i>>
              /\ current_length' = s.words
    /\ sc_i' = sc_i + 1
    /\ UNCHANGED <<sc_pc, sc_text, sc_min, sc_max>>
    /\ ChunkFrame

\* "Add the last chunk" and return.
SplitFlush ==
    /\ sc_pc = "loop" /\ sc_text # <<>> /\ sc_i > Len(sc_text)
    /\ sc_chunks' = CloseOut(sc_text, sc_chunks, current_chunk, current_length, sc_min)
    /\ sc_pc' = "done"
    /\ UNCHANGED <<sc_text, sc_min, sc_max, sc_i, current_chunk, current_length>>
    /\ ChunkFrame

(***************************************************************************)
(* The corpus builder: scrape_website, load_data, the TF-IDF fit           *)
(***************************************************************************)
\* Bounds of the builder's inputs.
MaxUrls == 3

URLs == {"about", "services", "contact"}

\* A chunk text as split_chunks returns it (already clean_text'ed, so its
\* whitespace is normalised): `key` identifies the text up to letter case,
\* `cap` tells the capitalised variant from the lower-case one.
ChunkKeys == 1..4

ChunkTexts == [key : ChunkKeys, cap : BOOLEAN]

Chunk(k) == [key |-> k, cap |-> FALSE]

ChunkCap(k) == [key |-> k, cap |-> TRUE]

\* The terms the vectorizer's analyzer finds in a chunk (lower-cased, English
\* stop words removed, unigrams and bigrams).
Terms == {"web", "design", "seo", "brand"}

TermsOf(c) ==
    CASE c.key = 1 -> {"web", "design"}
      [] c.key = 2 -> {"web", "seo"}
      [] c.key = 3 -> {"seo"}
      [] c.key = 4 -> {"brand"}

\* What the response generators find in a chunk's lower-cased text: the
\* service keywords of generate_service_response (in the list's order), an
\* about keyword, a project keyword, and the matches of the contact patterns.
ServiceKeywordsIn(c) ==
    CASE c.key = 1 -> <<"web design">>
      [] c.key = 2 -> <<"seo">>
      [] c.key = 3 -> <<"seo">>
      [] c.key = 4 -> <<>>

HasAboutKeyword(c) == c.key = 4

HasProjectKeyword(c) == c.key = 2

ContactMatchesIn(c) == IF c.key = 3 THEN <<"info@nixvixa.com">> ELSE <<>>

\* `re.sub(r'\s+', ' ', chunk).strip().lower()`
Normalized(c) == [key |-> c.key, cap |-> FALSE]

\* split_chunks is called with its defaults, so a chunk has at least min_len =
\* 40 words: 40 one-letter words and 39 spaces at the least.
DefaultMinLen == 40

ChunkTextLen(c) == 2 * DefaultMinLen - 1

MinChunkChars == 30

\* An element of a page (p, li, div, span) whose text is longer than 20
\* characters: its cleaned text and the categories of content_patterns one of
\* whose keywords it contains.
Element(t, cs) == [text |-> t, cats |-> cs]

ElemServices == Element("We offer web design services", {"services"})

ElemAbout == Element("Our company story and mission", {"about"})

ElemContact == Element("Contact our team by email", {"contact", "about"})

\* What a URL serves, by what scrape_website and load_data read of it: the
\* chunks split_chunks returns for its text, its elements, what the e-mail and
\* phone patterns find in its text (re.findall gives the phone pattern's one
\* group, the country prefix) and the services whose keywords its text holds.
Page(cs, es, ms, ps, sv) == [chunks |-> cs, elems |-> es, emails |-> ms, phones |-> ps, services |-> sv]

PageA ==
    Page(<<Chunk(1), Chunk(2)>>, <<ElemServices, ElemAbout>>, <<"info@nixvixa.com">>, <<>>,
         {"web development", "digital marketing"})

PageB == Page(<<Chunk(3)>>, <<ElemContact>>, <<"info@nixvixa.com">>, <<"+1 ">>, {"digital marketing"})

PageC == Page(<<ChunkCap(1), Chunk(4)>>, <<ElemAbout>>, <<>>, <<>>, {"branding"})

PageD == Page(<<>>, <<>>, <<>>, <<>>, {})

Pages == {PageA, PageB, PageC, PageD}

\* content_patterns, in the dict's order, and the categories one of whose
\* keywords the URL contains.
Categories == <<"services", "about", "projects", "contact", "pricing", "features", "testimonials", "faq">>

UrlCategories(url) ==
    CASE url = "about" -> {"about"}
      [] url = "services" -> {"services"}
      [] url = "contact" -> {"contact"}

\* service_keywords of extract_from_full_text, in the dict's order.
ServiceNames ==
    <<"web development", "digital marketing", "app development", "branding",
      "content creation", "ai automation">>

EmailItem(e) == CASE e = "info@nixvixa.com" -> "Email: info@nixvixa.com"

PhoneItem(ph) == CASE ph = "+1 " -> "Phone: +1 "

InSeq(x, q) == \E i \in 1..Len(q) : q[i] = x

FirstN(q, n) == SubSeq(q, 1, IF Len(q) < n THEN Len(q) ELSE n)

\* Lines 165-172 for one content type: the texts of the elements that hold one
\* of its keywords, appended unless already in the list.
RECURSIVE AppendElements(_, _, _)
AppendElements(list, es, cat) ==
    IF es = <<>> THEN list
    ELSE AppendElements(
             IF cat \in Head(es).cats /\ ~InSeq(Head(es).text, list)
             THEN Append(list, Head(es).text) ELSE list,
             Tail(es), cat)

RECURSIVE ElementPass(_, _, _, _)
ElementPass(sd, url, es, n) ==
    IF n > Len(Categories) THEN sd
    ELSE LET cat == Categories[n] IN
         ElementPass(IF cat \in UrlCategories(url)
                     THEN [sd EXCEPT ![cat] = AppendElements(@, es, cat)] ELSE sd,
                     url, es, n + 1)

\* Lines 203-206: a service the text mentions is appended unless already there.
RECURSIVE AppendServices(_, _, _)
AppendServices(list, mentioned, n) ==
    IF n > Len(ServiceNames) THEN list
    ELSE AppendServices(
             IF ServiceNames[n] \in mentioned /\ ~InSeq(ServiceNames[n], list)
             THEN Append(list, ServiceNames[n]) ELSE list,
             mentioned, n + 1)

MaxEmails == 3
MaxPhones == 2

\* extract_from_full_text(text, url)
extract_from_full_text(sd, url, page) ==
    LET mails  == FirstN(page.emails, MaxEmails)
        phones == FirstN(page.phones, MaxPhones)
        sd1 == IF page.emails # <<>> /\ "contact" \notin UrlCategories(url)
               THEN [sd EXCEPT !.contact = @ \o [i \in 1..Len(mails) |-> EmailItem(mails[i])]]
               ELSE sd
        sd2 == IF page.phones # <<>> /\ "contact" \notin UrlCategories(url)
               THEN [sd1 EXCEPT !.contact = @ \o [i \in 1..Len(phones) |-> PhoneItem(phones[i])]]
               ELSE sd1
    IN  [sd2 EXCEPT !.services = AppendServices(@, page.services, 1)]

\* extract_structured_info(soup, url, full_text)
extract_structured_info(sd, url, page) ==
    extract_from_full_text(ElementPass(sd, url, page.elems, 1), url, page)

\* WebsiteChatbot.__init__
FreshBot(urls) ==
    [ urls              |-> urls,
      chunks            |-> <<>>,
      tfidf_matrix      |-> Nothing,
      vocabulary_       |-> Nothing,
      content_map       |-> [c \in ChunkTexts |-> None],
      structured_data   |-> [c \in {Categories[n] : n \in 1..Len(Categories)} |-> <<>>],
      url_content_cache |-> [u \in URLs |-> Nothing] ]

\* get_stats: total_chunks and vectorizer_vocab_size.
total_chunks(b) == Len(b.chunks)

vectorizer_vocab_size(b) ==
    IF b.vocabulary_ = Nothing THEN 0 ELSE Cardinality(Value(b.vocabulary_))

\* scrape_website(url): the text returned and the bot afterwards. `ok` is the
\* outcome of the network call (FALSE: timeout, network error, non-HTML
\* content or a parse error, all answered with ""). The text is Some(page), ""
\* is Nothing.
scrape_website(b, world, url, ok) ==
    IF b.url_content_cache[url] # Nothing
    THEN [text |-> b.url_content_cache[url], bot |-> b, fetched |-> FALSE]
    ELSE IF ~ok
    THEN [text |-> Nothing, bot |-> b, fetched |-> TRUE]
    ELSE [text |-> Some(world[url]),
          bot |-> [b EXCEPT !.structured_data = extract_structured_info(@, url, world[url]),
                            !.url_content_cache[url] = Some(world[url])],
          fetched |-> TRUE]

\* split_chunks(text, url) inside load_data: the chunks of the page, each
\* recorded in content_map (`self.content_map[chunk_text] = source_url`).
RECURSIVE RecordProvenance(_, _, _)
RecordProvenance(cm, cs, url) ==
    IF cs = <<>> THEN cm
    ELSE RecordProvenance([cm EXCEPT ![Head(cs)] = url], Tail(cs), url)

\* The body of the loop over self.urls for one URL: st holds bot, all_chunks
\* and failed_urls.
LoadOne(st, world, url, ok) ==
    LET r == scrape_website(st.bot, world, url, ok) IN
    IF r.text # Nothing
    THEN [ bot |-> [r.bot EXCEPT !.content_map = RecordProvenance(@, Value(r.text).chunks, url)],
           all_chunks |-> st.all_chunks \o Value(r.text).chunks,
           failed_urls |-> st.failed_urls ]
    ELSE [ bot |-> r.bot,
           all_chunks |-> st.all_chunks,
           failed_urls |-> Append(st.failed_urls, url) ]

\* The loop of lines 327-338 without its seen_chunks test.
RECURSIVE DedupByLengthOnly(_, _, _)
DedupByLengthOnly(cs, seen, unique) ==
    IF cs = <<>> THEN unique
    ELSE IF ChunkTextLen(Head(cs)) > MinChunkChars
         THEN DedupByLengthOnly(Tail(cs), seen, Append(unique, Head(cs)))
         ELSE DedupByLengthOnly(Tail(cs), seen, unique)

\* "Remove duplicates while preserving order" (lines 327-338).
RECURSIVE Dedup(_, _, _)
Dedup(cs, seen, unique) ==
    IF cs = <<>> THEN unique
    ELSE LET c == Head(cs) IN
         IF Normalized(c) \notin seen /\ ChunkTextLen(c) > MinChunkChars
         THEN Dedup(Tail(cs), seen \cup {Normalized(c)}, Append(unique, c))
         ELSE Dedup(Tail(cs), seen, unique)

unique_chunks(cs) == Dedup(cs, {}, <<>>)

\* TfidfVectorizer(stop_words='english', max_features=5000, ngram_range=(1, 2),
\* min_df=2, max_df=0.8).fit_transform(chunks).  max_df is kept in tenths.
\* (max_features = 5000 never binds on a vocabulary of Cardinality(Terms).)
MinDf == 2
MaxDfTenths == 8

DocFreq(cs, t) == Cardinality({i \in 1..Len(cs) : t \in TermsOf(cs[i])})

AllTerms(cs) == UNION {TermsOf(cs[i]) : i \in 1..Len(cs)}

KeptTerms(cs) ==
    {t \in AllTerms(cs) : DocFreq(cs, t) >= MinDf /\ 10 * DocFreq(cs, t) <= MaxDfTenths * Len(cs)}

\* fit_transform raises ValueError on an empty vocabulary, when max_df * n_docs
\* < min_df, and when no term is left after pruning.
FitRaises(cs) ==
    \/ AllTerms(cs) = {}
    \/ MaxDfTenths * Len(cs) < 10 * MinDf
    \/ KeptTerms(cs) = {}

\* The fitted matrix: row i holds the kept terms of chunk i.
FitMatrix(cs) == [i \in 1..Len(cs) |-> TermsOf(cs[i]) \cap KeptTerms(cs)]

NoContent == "No content available for chatbot training"

FitError == "ValueError"

\* `self.chunks = unique_chunks`
AfterChunks(b, all) == [b EXCEPT !.chunks = unique_chunks(all)]

\* `self.tfidf_matrix = self.vectorizer.fit_transform(self.chunks)`, not raising.
AfterFit(b) ==
    [b EXCEPT !.tfidf_matrix = Some(FitMatrix(b.chunks)),
              !.vocabulary_ = Some(KeptTerms(b.chunks))]

\* load_data as one call: the loop over self.urls with the network outcomes
\* oks (one per URL of the list), then the deduplication and the fit. The bot
\* afterwards and the exception raised, or None.
RECURSIVE LoadLoop(_, _, _, _)
LoadLoop(st, world, urls, oks) ==
    IF urls = <<>> THEN st
    ELSE LoadLoop(LoadOne(st, world, Head(urls), Head(oks)), world, Tail(urls), Tail(oks))

load_data(b, world, oks) ==
    LET st == LoadLoop([bot |-> b, all_chunks |-> <<>>, failed_urls |-> <<>>], world, b.urls, oks)
        b1 == AfterChunks(st.bot, st.all_chunks)
    IN  IF Len(b1.chunks) = 0 THEN [bot |-> b1, error |-> NoContent]
        ELSE IF FitRaises(b1.chunks) THEN [bot |-> b1, error |-> FitError]
        ELSE [bot |-> AfterFit(b1), error |-> None]

LoadIdle ==
    /\ bot = Nothing /\ site = Nothing /\ ld_pc = "idle" /\ ld_i = 0
    /\ all_chunks = <<>> /\ failed_urls = <<>> /\ ld_error = None

LoadInit ==
    /\ \E urls \in SeqsUpTo(URLs, MaxUrls) : bot = FreshBot(urls)
    /\ site \in [URLs -> Pages]
    /\ ld_pc = "urls"
    /\ ld_i = 1
    /\ all_chunks = <<>>
    /\ failed_urls = <<>>
    /\ ld_error = None

\* What the builder's steps leave alone.
LoadFrame == UNCHANGED <<chunkVars, retrVars, routeVars, appVars>>

\* One iteration of the loop over self.urls.
LoadUrl ==
    /\ ld_pc = "urls" /\ ld_i <= Len(bot.urls)
    /\ \E ok \in BOOLEAN :
         LET st == LoadOne([bot |-> bot, all_chunks |-> all_chunks, failed_urls |-> failed_urls],
                           site, bot.urls[ld_i], ok) IN
         /\ bot' = st.bot
         /\ all_chunks' = st.all_chunks
         /\ failed_urls' = st.failed_urls
    /\ ld_i' = ld_i + 1
    /\ UNCHANGED <<site, ld_pc, ld_error>>
    /\ LoadFrame

\* Lines 327-361: self.chunks = unique_chunks, then the corpus-empty check.
LoadDedup ==
    /\ ld_pc = "urls" /\ ld_i > Len(bot.urls)
    /\ bot' = AfterChunks(bot, all_chunks)
    /\ IF Len(unique_chunks(all_chunks)) = 0
       THEN ld_pc' = "raised" /\ ld_error' = NoContent
       ELSE ld_pc' = "fit" /\ UNCHANGED ld_error
    /\ UNCHANGED <<site, ld_i, all_chunks, failed_urls>>
    /\ LoadFrame

\* Line 365: self.tfidf_matrix = self.vectorizer.fit_transform(self.chunks)
LoadFit ==
    /\ ld_pc = "fit"
    /\ IF FitRaises(bot.chunks)
       THEN /\ ld_pc' = "raised"
            /\ ld_error' = FitError
            /\ UNCHANGED bot
       ELSE /\ ld_pc' = "done"
            /\ UNCHANGED ld_error
            /\ bot' = AfterFit(bot)
    /\ UNCHANGED <<site, ld_i, all_chunks, failed_urls>>
    /\ LoadFrame

(***************************************************************************)
(* The retriever: retrieve_relevant_chunks                                 *)
(***************************************************************************)
\* Bounds of the retriever's inputs. Scores are levels: 0 is a similarity of
\* exactly 0, 1..MaxScore are increasing positive similarities; min_score is
\* a level too.
MaxK == 2
MaxScore == 3

KChoices == 0..MaxK

ScoreLevels == 0..MaxScore

\* The URL list of BotInitializer.initialize, cut to the model's URLs.
Links == <<"about", "services", "contact">>

\* The bots a query can meet: never loaded, or after load_data over Links
\* (fitted, or left as the exception left it).
LoadedBots ==
    {load_data(FreshBot(Links), w, oks).bot : w \in [URLs -> Pages], oks \in [1..Len(Links) -> BOOLEAN]}

QueryBots == {FreshBot(Links)} \cup LoadedBots

\* The query's row: transform keeps the terms of the fitted vocabulary
\* (out-of-vocabulary terms weigh nothing).
QueryRow(b, q) == q \cap Value(b.vocabulary_)

\* cosine_similarity of the query's row with every row of the matrix, in
\* levels: 0 where the two share no term, MaxScore (cosine 1) where they are
\* the same non-empty row, some level between where they overlap; equal rows
\* get equal scores.
SimilarityChoices(b, q) ==
    LET m == Value(b.tfidf_matrix) IN
    {sim \in [1..Len(m) -> ScoreLevels] :
        /\ \A i \in 1..Len(m) : (sim[i] = 0) <=> (QueryRow(b, q) \cap m[i] = {})
        /\ \A i \in 1..Len(m) : (sim[i] = MaxScore) <=> (m[i] # {} /\ QueryRow(b, q) = m[i])
        /\ \A i, j \in 1..Len(m) : m[i] = m[j] => sim[i] = sim[j]}

\* np.argsort: the orders of 1..n along which the scores do not decrease (the
\* default sort is not stable, so equal scores may come in any order).
IsPermutation(p, n) == Len(p) = n /\ \A i \in 1..n : \E j \in 1..n : p[j] = i

ArgsortChoices(sim) ==
    {p \in [1..Len(sim) -> 1..Len(sim)] :
        /\ IsPermutation(p, Len(sim))
        /\ \A j \in 1..(Len(sim) - 1) : sim[p[j]] <= sim[p[j + 1]]}

\* a[-k*3:] of Python: the last 3k elements when k > 0; for -k*3 >= 0 the
\* slice a[-k*3:] starts at index -k*3, so a[-0:] is the whole array.
SliceStart(n, k) ==
    IF k > 0 THEN (IF n - 3 * k > 0 THEN n - 3 * k ELSE 0)
    ELSE (IF -3 * k < n THEN -3 * k ELSE n)

\* [::-1]
Reverse(a) == [j \in 1..Len(a) |-> a[Len(a) + 1 - j]]

TopIndices(order, k) == Reverse(SubSeq(order, SliceStart(Len(order), k) + 1, Len(order)))

\* The guard of line 371 without its first test.
UnbuiltByChunksOnly(b) == Len(b.chunks) = 0

\* `if self.tfidf_matrix is None or len(self.chunks) == 0: return []`
Unbuilt(b) == b.tfidf_matrix = Nothing \/ Len(b.chunks) = 0

\* self.vectorizer.transform([query]) raises NotFittedError on a vectorizer
\* that was never fitted.
TransformRaises(b) == b.vocabulary_ = Nothing

\* cosine_similarity(query_vec, self.tfidf_matrix) raises on a matrix of None.
SimilarityRaises(b) == b.tfidf_matrix = Nothing

\* One iteration of the loop of lines 387-397, without the break: the results
\* and seen_content afterwards.
Collect(b, sim, min, idx, res, seen) ==
    IF sim[idx] >= min /\ b.chunks[idx] \notin seen
    THEN [results |-> Append(res, [chunk |-> b.chunks[idx], score |-> sim[idx], idx |-> idx]),
          seen |-> seen \cup {b.chunks[idx]}]
    ELSE [results |-> res, seen |-> seen]

\* `if len(results) >= k: break`
LoopBreaks(res, k) == Len(res) >= k

\* The loop of lines 387-397 from position j of top_indices on.
RECURSIVE RetrieveFrom(_, _, _, _, _, _, _, _)
RetrieveFrom(b, sim, min, k, top, j, res, seen) ==
    IF j > Len(top) THEN res
    ELSE LET r == Collect(b, sim, min, top[j], res, seen) IN
         IF LoopBreaks(r.results, k) THEN r.results
         ELSE RetrieveFrom(b, sim, min, k, top, j + 1, r.results, r.seen)

\* retrieve_relevant_chunks(query, k, min_score) as one call: what it may give,
\* over the similarities and the orders argsort may produce.
RetrievalOutcomes(b, q, k, min) ==
    IF Unbuilt(b) THEN {[raised |-> FALSE, results |-> <<>>]}
    ELSE IF TransformRaises(b) \/ SimilarityRaises(b) THEN {[raised |-> TRUE, results |-> <<>>]}
    ELSE UNION { { [raised |-> FALSE,
                    results |-> RetrieveFrom(b, sim, min, k, TopIndices(order, k), 1, <<>>, {})] :
                   order \in ArgsortChoices(sim) } :
                 sim \in SimilarityChoices(b, q) }

RetrIdle ==
    /\ rt_pc = "idle" /\ rt_query = {} /\ rt_k = 0 /\ rt_min = 0
    /\ similarities = <<>> /\ top_indices = <<>> /\ rt_j = 0
    /\ results = <<>> /\ seen_content = {}

RetrInit ==
    /\ bot \in QueryBots
    /\ site = Nothing /\ ld_pc = "idle" /\ ld_i = 0
    /\ all_chunks = <<>> /\ failed_urls = <<>> /\ ld_error = None
    /\ rt_pc = "call"
    /\ rt_query \in SUBSET Terms
    /\ rt_k \in KChoices
    /\ rt_min \in ScoreLevels
    /\ similarities = <<>> /\ top_indices = <<>> /\ rt_j = 0
    /\ results = <<>> /\ seen_content = {}

RetrFrame == UNCHANGED <<chunkVars, loadVars, routeVars, appVars>>

\* Lines 371-372.
RetrieveUnbuilt ==
    /\ rt_pc = "call" /\ Unbuilt(bot)
    /\ rt_pc' = "done"
    /\ UNCHANGED <<rt_query, rt_k, rt_min, similarities, top_indices, rt_j, results, seen_content>>
    /\ RetrFrame

\* Lines 375-385: the query's vector, the similarities, the candidate pool.
RetrieveRank ==
    /\ rt_pc = "call" /\ ~Unbuilt(bot)
    /\ IF TransformRaises(bot)
       THEN /\ rt_pc' = "raised"
            /\ UNCHANGED <<similarities, top_indices, rt_j>>
       ELSE /\ \E sim \in SimilarityChoices(bot, rt_query) :
                 /\ similarities' = sim
                 /\ \E order \in ArgsortChoices(sim) : top_indices' = TopIndices(order, rt_k)
            /\ rt_j' = 1
            /\ rt_pc' = "loop"
    /\ UNCHANGED <<rt_query, rt_k, rt_min, results, seen_content>>
    /\ RetrFrame

\* One iteration of `for idx in top_indices`.
RetrieveLoop ==
    /\ rt_pc = "loop" /\ rt_j <= Len(top_indices)
    /\ LET r == Collect(bot, similarities, rt_min, top_indices[rt_j], results, seen_content) IN
         /\ results' = r.results
         /\ seen_content' = r.seen
         /\ rt_pc' = IF LoopBreaks(r.results, rt_k) THEN "done" ELSE "loop"
    /\ rt_j' = rt_j + 1
    /\ UNCHANGED <<rt_query, rt_k, rt_min, similarities, top_indices>>
    /\ RetrFrame

\* The loop ran out of candidates: `return results`.
RetrieveReturn ==
    /\ rt_pc = "loop" /\ rt_j > Len(top_indices)
    /\ rt_pc' = "done"
    /\ UNCHANGED <<rt_query, rt_k, rt_min, similarities, top_indices, rt_j, results, seen_content>>
    /\ RetrFrame

(***************************************************************************)
(* The response generator: generate_response and the category generators   *)
(***************************************************************************)
\* Bound of the generator's input: a message is a sequence of at most
\* MaxWords words, separated by single blanks.
MaxWords == 3

Words ==
    {"Hello", "hello", "history", "bye", "thanks", "services", "company", "work",
     "email", "price", "how", "much", "widget", "web", "brand"}

Messages == SeqsUpTo(Words, MaxWords)

\* str.lower() on a word, and `user_text.lower().strip()` on a message.
Lower(w) == IF w = "Hello" THEN "hello" ELSE w

LowerText(msg) == [i \in 1..Len(msg) |-> Lower(msg[i])]

\* The keyword lists of generate_response, each keyword split at its blanks.
Greetings ==
    << <<"hi">>,
       <<"hello">>,
       <<"hey">>,
       <<"good", "morning">>,
       <<"good", "afternoon">>,
       <<"good", "evening">>,
       <<"hola">>,
       <<"namaste">> >>

Farewells ==
    << <<"bye">>,
       <<"goodbye">>,
       <<"exit">>,
       <<"quit">>,
       <<"see", "you">>,
       <<"thanks", "bye">>,
       <<"thank", "you", "bye">> >>

GratitudePhrases ==
    << <<"thank">>,
       <<"thanks">>,
       <<"appreciate">> >>

service_queries ==
    << <<"service">>,
       <<"offer">>,
       <<"provide">>,
       <<"what", "do", "you", "do">>,
       <<"solutions">>,
       <<"web", "development">>,
       <<"digital", "marketing">>,
       <<"app", "development">>,
       <<"branding">>,
       <<"seo">>,
       <<"social", "media">>,
       <<"content", "creation">>,
       <<"ai", "automation">> >>

about_queries ==
    << <<"about">>,
       <<"company">>,
       <<"who", "are", "you">>,
       <<"nixvixa">>,
       <<"story">>,
       <<"mission">>,
       <<"vision">>,
       <<"values">>,
       <<"team">> >>

project_queries ==
    << <<"project">>,
       <<"portfolio">>,
       <<"work">>,
       <<"case", "study">>,
       <<"examples">>,
       <<"show", "me", "your", "work">>,
       <<"previous", "work">> >>

contact_queries ==
    << <<"contact">>,
       <<"email">>,
       <<"phone">>,
       <<"address">>,
       <<"reach">>,
       <<"call">>,
       <<"location">>,
       <<"get", "in", "touch">>,
       <<"support">> >>

pricing_queries ==
    << <<"price">>,
       <<"cost">>,
       <<"how", "much">>,
       <<"pricing">>,
       <<"fee">>,
       <<"rate">> >>

SubstringPairs ==
    { <<"hello", "hello">>,
      <<"hi", "history">>,
      <<"story", "history">>,
      <<"bye", "bye">>,
      <<"thank", "thanks">>,
      <<"thanks", "thanks">>,
      <<"service", "services">>,
      <<"company", "company">>,
      <<"work", "work">>,
      <<"ai", "email">>,
      <<"email", "email">>,
      <<"price", "price">>,
      <<"how", "how">>,
      <<"much", "much">>,
      <<"get", "widget">>,
      <<"web", "web">> }

PrefixPairs ==
    { <<"hello", "hello">>,
      <<"hi", "history">>,
      <<"bye", "bye">>,
      <<"thank", "thanks">>,
      <<"thanks", "thanks">>,
      <<"service", "services">>,
      <<"company", "company">>,
      <<"work", "work">>,
      <<"email", "email">>,
      <<"price", "price">>,
      <<"how", "how">>,
      <<"much", "much">>,
      <<"web", "web">> }

SuffixPairs ==
    { <<"hello", "hello">>,
      <<"story", "history">>,
      <<"bye", "bye">>,
      <<"thanks", "thanks">>,
      <<"company", "company">>,
      <<"work", "work">>,
      <<"email", "email">>,
      <<"price", "price">>,
      <<"how", "how">>,
      <<"much", "much">>,
      <<"get", "widget">>,
      <<"web", "web">> }

\* The pairs <<a, b>> of a keyword's word a and a lower-cased word b of Words
\* with a in b, b.startswith(a), b.endswith(a).
IsSubstring(a, b) == <<a, b>> \in SubstringPairs

IsPrefix(a, b) == <<a, b>> \in PrefixPairs

IsSuffix(a, b) == <<a, b>> \in SuffixPairs

\* `kw in text`: a one-word keyword lies inside a word of the text; a longer
\* one ends a word with its first word, matches the words between and starts
\* a word with its last.
Contains(text, kw) ==
    \E i \in 1..(Len(text) - Len(kw) + 1) :
        IF Len(kw) = 1 THEN IsSubstring(kw[1], text[i])
        ELSE /\ IsSuffix(kw[1], text[i])
             /\ IsPrefix(kw[Len(kw)], text[i + Len(kw) - 1])
             /\ \A j \in 2..(Len(kw) - 1) : text[i + j - 1] = kw[j]

\* text.startswith(kw)
StartsWith(text, kw) ==
    /\ Len(text) >= Len(kw)
    /\ IsPrefix(kw[Len(kw)], text[Len(kw)])
    /\ \A j \in 1..(Len(kw) - 1) : text[j] = kw[j]

\* any(kw in text for kw in kws), any(text.startswith(kw) for kw in kws)
AnyContains(text, kws) == \E n \in 1..Len(kws) : Contains(text, kws[n])

AnyStartsWith(text, kws) == \E n \in 1..Len(kws) : StartsWith(text, kws[n])

\* A response: which template it is and the items the template lists. Every
\* template of the source is a non-empty literal; "" stands for no string.
Response(kind, items) == [kind |-> kind, items |-> items]

MaxFoundServices == 10
MaxServicesShown == 8
MaxAboutShown == 3
MaxContactShown == 5
MaxProjectsShown == 4

\* str.title() on the service keywords the chunks hold.
Title(kw) == CASE kw = "web design" -> "Web Design" [] kw = "seo" -> "Seo"

\* Lines 417-422: found_services over the chunks (the test is on the keyword,
\* the entry appended is its title-cased form).
RECURSIVE FoundInChunk(_, _)
FoundInChunk(found, kws) ==
    IF kws = <<>> THEN found
    ELSE FoundInChunk(IF ~InSeq(Head(kws), found) THEN Append(found, Title(Head(kws))) ELSE found,
                      Tail(kws))

RECURSIVE FoundServices(_, _)
FoundServices(found, cs) ==
    IF cs = <<>> THEN found
    ELSE FoundServices(FoundInChunk(found, ServiceKeywordsIn(Head(cs))), Tail(cs))

\* A category generator gives the response and the bot afterwards.
generate_service_response(b) ==
    LET stored == b.structured_data.services
        services == IF stored = <<>>
                    THEN FirstN(FoundServices(<<>>, b.chunks), MaxFoundServices)
                    ELSE stored
    IN  [response |-> IF services = <<>> THEN Response("services_default", <<>>)
                      ELSE Response("services_list", FirstN(services, MaxServicesShown)),
         bot |-> b]

\* Lines 447-450 and 510-513: the chunks holding a keyword are appended to
\* about_info / projects, which is the list of structured_data itself.
RECURSIVE AboutFromChunks(_, _)
AboutFromChunks(list, cs) ==
    IF cs = <<>> THEN list
    ELSE AboutFromChunks(IF HasAboutKeyword(Head(cs)) THEN Append(list, Head(cs)) ELSE list, Tail(cs))

RECURSIVE ProjectsFromChunks(_, _)
ProjectsFromChunks(list, cs) ==
    IF cs = <<>> THEN list
    ELSE ProjectsFromChunks(IF HasProjectKeyword(Head(cs)) THEN Append(list, Head(cs)) ELSE list, Tail(cs))

\* Lines 478-483: the matches of the contact patterns, appended unless there.
RECURSIVE AppendNew(_, _)
AppendNew(list, items) ==
    IF items = <<>> THEN list
    ELSE AppendNew(IF ~InSeq(Head(items), list) THEN Append(list, Head(items)) ELSE list, Tail(items))

RECURSIVE ContactFromChunks(_, _)
ContactFromChunks(list, cs) ==
    IF cs = <<>> THEN list
    ELSE ContactFromChunks(AppendNew(list, ContactMatchesIn(Head(cs))), Tail(cs))

generate_about_response(b) ==
    LET about_info == IF b.structured_data.about = <<>>
                      THEN AboutFromChunks(<<>>, b.chunks)
                      ELSE b.structured_data.about
    IN  [response |-> IF about_info = <<>> THEN Response("about_default", <<>>)
                      ELSE Response("about_list", FirstN(about_info, MaxAboutShown)),
         bot |-> [b EXCEPT !.structured_data.about = about_info]]

DefaultContact == <<"Email: contact@nixvixa.com", "Phone: +1 (555) 123-4567", "Website: https://nixvixa.com">>

generate_contact_response(b) ==
    LET contact_info == IF b.structured_data.contact = <<>>
                        THEN ContactFromChunks(<<>>, b.chunks)
                        ELSE b.structured_data.contact
        shown == IF contact_info = <<>> THEN DefaultContact ELSE contact_info
    IN  [response |-> Response("contact_list", FirstN(shown, MaxContactShown)),
         bot |-> [b EXCEPT !.structured_data.contact = contact_info]]

generate_project_response(b) ==
    LET projects == IF b.structured_data.projects = <<>>
                    THEN ProjectsFromChunks(<<>>, b.chunks)
                    ELSE b.structured_data.projects
    IN  [response |-> IF projects = <<>> THEN Response("projects_default", <<>>)
                      ELSE Response("projects_list", FirstN(projects, MaxProjectsShown)),
         bot |-> [b EXCEPT !.structured_data.projects = projects]]

\* generate_response's defaults: top_k = 5, and min_score = 0.15 as a score
\* level (level 1 is a positive similarity below it, MaxScore is cosine 1).
DefaultTopK == 5
DefaultMinScore == 2
ClarifyWords == 3

\* The terms the vectorizer's analyzer finds in the message.
QueryTerms(msg) == {Lower(msg[i]) : i \in 1..Len(msg)} \cap Terms

\* The if-chain with the services test moved ahead of the greeting test.
RuleServicesFirst(text) ==
    IF AnyContains(text, service_queries) THEN "services"
    ELSE IF AnyStartsWith(text, Greetings) THEN "greeting"
    ELSE IF AnyContains(text, Farewells) THEN "farewell"
    ELSE IF AnyContains(text, GratitudePhrases) THEN "gratitude"
    ELSE IF AnyContains(text, about_queries) THEN "about"
    ELSE IF AnyContains(text, project_queries) THEN "projects"
    ELSE IF AnyContains(text, contact_queries) THEN "contact"
    ELSE IF AnyContains(text, pricing_queries) THEN "pricing"
    ELSE "retrieval"

\* The if-chain of lines 536-585: the rule that answers the text.
Rule(text) ==
    IF AnyStartsWith(text, Greetings) THEN "greeting"
    ELSE IF AnyContains(text, Farewells) THEN "farewell"
    ELSE IF AnyContains(text, GratitudePhrases) THEN "gratitude"
    ELSE IF AnyContains(text, service_queries) THEN "services"
    ELSE IF AnyContains(text, about_queries) THEN "about"
    ELSE IF AnyContains(text, project_queries) THEN "projects"
    ELSE IF AnyContains(text, contact_queries) THEN "contact"
    ELSE IF AnyContains(text, pricing_queries) THEN "pricing"
    ELSE "retrieval"

\* Lines 600-614: each result with the page content_map gives for its chunk.
Rendered(b, res) ==
    [n \in 1..Len(res) |-> [chunk |-> res[n].chunk, source |-> b.content_map[res[n].chunk]]]

Answer(raised, response, b) == [raised |-> raised, response |-> response, bot |-> b]

\* Lines 588-619: the fallback, for one outcome r of the retrieval.
FallbackAnswer(b, text, r) ==
    IF r.raised THEN Answer(TRUE, Response("", <<>>), b)
    ELSE IF r.results = <<>>
    THEN (IF Len(text) < ClarifyWords
          THEN Answer(FALSE, Response("clarify", <<>>), b)
          ELSE Answer(FALSE, Response("not_found", <<>>), b))
    ELSE Answer(FALSE, Response("retrieval", Rendered(b, r.results)), b)

\* generate_response(user_text): the answers it may give (one, but for the
\* retrieval's orders): raised or the response, and the bot afterwards.
generate_response(b, msg) ==
    LET text == LowerText(msg)
        rule == Rule(text)
    IN  IF rule \in {"greeting", "farewell", "gratitude", "pricing"}
        THEN {Answer(FALSE, Response(rule, <<>>), b)}
        ELSE IF rule = "services"
        THEN {Answer(FALSE, generate_service_response(b).response, generate_service_response(b).bot)}
        ELSE IF rule = "about"
        THEN {Answer(FALSE, generate_about_response(b).response, generate_about_response(b).bot)}
        ELSE IF rule = "projects"
        THEN {Answer(FALSE, generate_project_response(b).response, generate_project_response(b).bot)}
        ELSE IF rule = "contact"
        THEN {Answer(FALSE, generate_contact_response(b).response, generate_contact_response(b).bot)}
        ELSE {FallbackAnswer(b, text, r) :
                 r \in RetrievalOutcomes(b, QueryTerms(msg), DefaultTopK, DefaultMinScore)}

\* Bound of the queries put to one bot, and the messages of the later ones.
MaxQueries == 2

FollowUps == {<<"company">>, <<"work">>, <<"email">>, <<"widget", "web">>}

\* The bots the generator is called on: never loaded, or loaded over Links
\* from one site, whatever fetches failed.
RouteSite ==
    [u \in URLs |-> CASE u = "about" -> PageA [] u = "services" -> PageB [] u = "contact" -> PageC]

\* load_data's state after n iterations of its loop over Links.
LoadPrefix(oks, n) ==
    LoadLoop([bot |-> FreshBot(Links), all_chunks |-> <<>>, failed_urls |-> <<>>],
             RouteSite, SubSeq(Links, 1, n), SubSeq(oks, 1, n))

\* The bots another thread sees while load_data runs: inside the loop, after
\* `self.chunks = unique_chunks`, and inside fit_transform once the vectorizer
\* has its vocabulary and self.tfidf_matrix is not assigned yet.
MidBuildBots(oks) ==
    LET st == LoadPrefix(oks, Len(Links))
        b1 == AfterChunks(st.bot, st.all_chunks)
    IN  {LoadPrefix(oks, n).bot : n \in 0..Len(Links)} \cup {b1} \cup
        (IF Len(b1.chunks) = 0 \/ FitRaises(b1.chunks) THEN {}
         ELSE {[b1 EXCEPT !.vocabulary_ = Some(KeptTerms(b1.chunks))]})

RouteBots ==
    {FreshBot(Links)} \cup
    UNION {MidBuildBots(oks) : oks \in [1..Len(Links) -> BOOLEAN]} \cup
    {load_data(FreshBot(Links), RouteSite, oks).bot : oks \in [1..Len(Links) -> BOOLEAN]}

NoAnswer == [raised |-> FALSE, response |-> Response("none", <<>>)]

RouteIdle == gr_pc = "idle" /\ gr_msg = <<>> /\ gr_out = NoAnswer /\ gr_n = 0

RouteInit ==
    /\ bot \in RouteBots
    /\ site = Nothing /\ ld_pc = "idle" /\ ld_i = 0
    /\ all_chunks = <<>> /\ failed_urls = <<>> /\ ld_error = None
    /\ gr_pc = "call"
    /\ gr_msg \in Messages
    /\ gr_out = NoAnswer
    /\ gr_n = 0

RouteFrame ==
    UNCHANGED <<chunkVars, site, ld_pc, ld_i, all_chunks, failed_urls, ld_error, retrVars, appVars>>

\* One call of generate_response.
Respond ==
    /\ gr_pc = "call"
    /\ \E a \in generate_response(bot, gr_msg) :
         /\ gr_out' = [raised |-> a.raised, response |-> a.response]
         /\ bot' = a.bot
    /\ gr_pc' = "done"
    /\ gr_n' = gr_n + 1
    /\ UNCHANGED gr_msg
    /\ RouteFrame

\* The next message arrives.
AskAgain ==
    /\ gr_pc = "done" /\ gr_n < MaxQueries
    /\ \E m \in FollowUps : gr_msg' = m
    /\ gr_pc' = "call"
    /\ gr_out' = NoAnswer
    /\ UNCHANGED <<bot, gr_n>>
    /\ RouteFrame

(***************************************************************************)
(* The serving process, src/app.py: the initializer threads, the requests, *)
(* the response cache.                                                      *)
(***************************************************************************)
\* Bounds: the requests served (each spawns at most one initializer thread,
\* which carries the request's number) and the clock.
MaxReqs == 2
MaxTime == 1

Reqs == 1..MaxReqs

\* CACHE_TTL = 300 seconds, in ticks of the clock (300 seconds each).
CACHE_TTL == 1

\* `links` of initialize, cut to two pages; what the site serves for them.
AppLinks == <<"about", "services">>

\* A run of whitespace in a message, as one word.
Whitespace == " "

\* A message left as it came.
StripNothing(m) == m

\* str.strip(): the message without its leading and trailing whitespace.
RECURSIVE StripLeft(_)
StripLeft(m) ==
    IF m # <<>> /\ Head(m) = Whitespace THEN StripLeft(Tail(m)) ELSE m

Strip(m) == Reverse(StripLeft(Reverse(StripLeft(m))))

\* data['message'] of the chat requests, and the cache keys
\* (f"{session_id}:{user_message.lower()}", one session).
ChatMessages == {<<>>, <<Whitespace>>, <<"web">>}

CacheKeys == {LowerText(m) : m \in ChatMessages \ {<<>>}}

Kinds == {"chat", "health", "stats", "init", "startup", "clear_cache"}

Reply(kind, body) == [kind |-> kind, body |-> body]

NoReply == Reply("none", <<>>)

\* An initializer thread: where it is in initialize, load_data's locals, the
\* exception it caught; ran and succeeded record that it passed line 45 and
\* line 81, net the URLs it requested over the network.
Thread(pc) ==
    [pc |-> pc, i |-> 0, all_chunks |-> <<>>, failed_urls |-> <<>>, exc |-> None,
     ran |-> FALSE, succeeded |-> FALSE, net |-> <<>>]

\* A request: its handler, where it is, data['message'] and bot_instance, the
\* reply; during, afterEmpty, partial, failedBefore and readyAt record the
\* lifecycle when it arrived and when it was answered.
Request(kind, pc, msg) ==
    [kind |-> kind, pc |-> pc, msg |-> msg, bot_instance |-> 0, reply |-> NoReply,
     during |-> FALSE, afterEmpty |-> FALSE, partial |-> FALSE,
     failedBefore |-> FALSE, readyAt |-> FALSE]

AppInit ==
    /\ initialization_lock = 0
    /\ is_initializing = FALSE
    /\ bot_initializer =
           [bot |-> 0, initialized |-> FALSE, initialization_time |-> Nothing, error |-> None]
    /\ heap = [t \in Reqs |-> Nothing]
    /\ thr = [t \in Reqs |-> Thread("unborn")]
    /\ req = [r \in Reqs |-> Request("none", "new", <<>>)]
    /\ response_cache = [k \in CacheKeys |-> Nothing]
    /\ now = 0

AppFrame == UNCHANGED <<chunkVars, loadVars, retrVars, routeVars>>

\* threading.Thread(target=...).start(): the request's initializer thread is
\* born, in front of `with initialization_lock`.
Spawned(r) == [thr EXCEPT ![r] = Thread("lock")]

\* Whether some build has failed so far, and whether no thread is alive.
SomeBuildFailed == \E t \in Reqs : thr[t].exc # None

NoThreadAlive == \A t \in Reqs : thr[t].pc \in {"unborn", "done"}

\* The system as an empty-corpus build leaves it.
FailedEmpty ==
    /\ bot_initializer.error = NoContent
    /\ ~bot_initializer.initialized
    /\ ~is_initializing
    /\ NoThreadAlive

\* A request comes in; requests come in in the order of their numbers.
Arrives(r) == req[r].pc = "new" /\ (IF r = 1 THEN TRUE ELSE req[r - 1].pc # "new")

Arrived(kind, pc, msg) ==
    [Request(kind, pc, msg) EXCEPT !.during = is_initializing, !.afterEmpty = FailedEmpty]

\* get_cached_response(query) at time t: the response, or Nothing, and the
\* cache afterwards (an expired entry is deleted).
get_cached_response(cache, query, t) ==
    IF cache[query] = Nothing
    THEN [response |-> Nothing, cache |-> cache]
    ELSE IF t - Value(cache[query]).cached_time < CACHE_TTL
    THEN [response |-> Some(Value(cache[query]).response), cache |-> cache]
    ELSE [response |-> Nothing, cache |-> [cache EXCEPT ![query] = Nothing]]

\* cache_response(query, response) at time t.
cache_response(cache, query, response, t) ==
    [cache EXCEPT ![query] = Some([cached_time |-> t, response |-> response])]

\* get_stats() of a bot.
get_stats(b) ==
    [total_urls |-> Len(b.urls),
     total_chunks |-> total_chunks(b),
     structured_data |-> [c \in DOMAIN b.structured_data |-> Len(b.structured_data[c])],
     vectorizer_vocab_size |-> vectorizer_vocab_size(b)]

\* chat, lines 130-162: the message, the empty-message reply, the cache.
ChatArrive(r) ==
    /\ Arrives(r)
    /\ \E m \in ChatMessages :
         IF Strip(m) = <<>>
         THEN /\ req' = [req EXCEPT ![r] =
                           [Arrived("chat", "done", m) EXCEPT !.reply = Reply("enter_message", <<>>)]]
              /\ UNCHANGED response_cache
         ELSE LET c == get_cached_response(response_cache, LowerText(Strip(m)), now) IN
              /\ response_cache' = c.cache
              /\ req' = [req EXCEPT ![r] =
                           IF c.response # Nothing
                           THEN [Arrived("chat", "done", m) EXCEPT !.reply = Reply("cached", c.response)]
                           ELSE Arrived("chat", "get_bot", m)]
    /\ UNCHANGED <<initialization_lock, is_initializing, bot_initializer, heap, thr, now>>
    /\ AppFrame

\* health, stats and the startup thread (after its sleep) begin with get_bot().
CallerArrive(r) ==
    /\ Arrives(r)
    /\ \E kind \in {"health", "stats", "startup"} :
         req' = [req EXCEPT ![r] = Arrived(kind, "get_bot", <<>>)]
    /\ UNCHANGED <<initialization_lock, is_initializing, bot_initializer, heap, thr,
                   response_cache, now>>
    /\ AppFrame

\* POST /api/init is dispatched to init_bot.
InitArrive(r) ==
    /\ Arrives(r)
    /\ req' = [req EXCEPT ![r] = Arrived("init", "init", <<>>)]
    /\ UNCHANGED <<initialization_lock, is_initializing, bot_initializer, heap, thr,
                   response_cache, now>>
    /\ AppFrame

\* clear_cache, lines 296-304.
ClearCache(r) ==
    /\ Arrives(r)
    /\ response_cache' = [k \in CacheKeys |-> Nothing]
    /\ req' = [req EXCEPT ![r] =
                 [Arrived("clear_cache", "done", <<>>) EXCEPT !.reply = Reply("cache_cleared", <<>>)]]
    /\ UNCHANGED <<initialization_lock, is_initializing, bot_initializer, heap, thr, now>>
    /\ AppFrame

\* get_bot, lines 98-105: the unlocked test, and the thread it starts.
GetBot(r) ==
    /\ req[r].pc = "get_bot"
    /\ IF ~bot_initializer.initialized /\ ~is_initializing
       THEN thr' = Spawned(r)
       ELSE UNCHANGED thr
    /\ req' = [req EXCEPT ![r].pc = "return_bot"]
    /\ UNCHANGED <<initialization_lock, is_initializing, bot_initializer, heap, response_cache, now>>
    /\ AppFrame

\* get_bot, line 107: return bot_initializer.bot
GetBotReturn(r) ==
    /\ req[r].pc = "return_bot"
    /\ req' = [req EXCEPT ![r].bot_instance = bot_initializer.bot,
                          ![r].pc = IF req[r].kind = "startup" THEN "done" ELSE "respond"]
    /\ UNCHANGED <<initialization_lock, is_initializing, bot_initializer, heap, thr,
                   response_cache, now>>
    /\ AppFrame

\* chat, lines 167-179: no bot_instance.
ChatNoBot(r) ==
    /\ req[r].pc = "respond" /\ req[r].kind = "chat" /\ req[r].bot_instance = 0
    /\ req' = [req EXCEPT ![r].pc = "done",
                          ![r].reply = IF is_initializing THEN Reply("initializing", <<>>)
                                       ELSE Reply("unavailable", <<>>),
                          ![r].failedBefore = SomeBuildFailed,
                          ![r].readyAt = bot_initializer.initialized]
    /\ UNCHANGED <<initialization_lock, is_initializing, bot_initializer, heap, thr,
                   response_cache, now>>
    /\ AppFrame

\* load_data is running on the bot of thread t: its chunks, structured data or
\* matrix are being filled.
Loading(t) == thr[t].pc \in {"load", "fit"}

\* chat, lines 182-206: generate_response on bot_instance, the cache, and the
\* error reply when it raises.
ChatGenerate(r) ==
    /\ req[r].pc = "respond" /\ req[r].kind = "chat" /\ req[r].bot_instance # 0
    /\ LET o == req[r].bot_instance IN
       \E a \in generate_response(Value(heap[o]), Strip(req[r].msg)) :
         /\ heap' = [heap EXCEPT ![o] = Some(a.bot)]
         /\ response_cache' =
               IF a.raised THEN response_cache
               ELSE cache_response(response_cache, LowerText(Strip(req[r].msg)), a.response, now)
         /\ req' = [req EXCEPT ![r].pc = "done",
                               ![r].reply = IF a.raised THEN Reply("error", <<>>)
                                            ELSE Reply("generated", a.response),
                               ![r].partial = Loading(o),
                               ![r].failedBefore = SomeBuildFailed,
                               ![r].readyAt = bot_initializer.initialized]
    /\ UNCHANGED <<initialization_lock, is_initializing, bot_initializer, thr, now>>
    /\ AppFrame

\* health, lines 213-231.
Health(r) ==
    /\ req[r].pc = "respond" /\ req[r].kind = "health"
    /\ req' = [req EXCEPT ![r].pc = "done",
                          ![r].reply = Reply("health",
                              [initialized |-> bot_initializer.initialized,
                               initializing |-> is_initializing,
                               initialization_time |-> bot_initializer.initialization_time,
                               error |-> bot_initializer.error,
                               cache_size |-> Cardinality({k \in CacheKeys : response_cache[k] # Nothing})])]
    /\ UNCHANGED <<initialization_lock, is_initializing, bot_initializer, heap, thr,
                   response_cache, now>>
    /\ AppFrame

\* stats, lines 238-259.
Stats(r) ==
    /\ req[r].pc = "respond" /\ req[r].kind = "stats"
    /\ req' = [req EXCEPT ![r].pc = "done",
                          ![r].reply = Reply("stats",
                              [initialized |-> bot_initializer.initialized,
                               initializing |-> is_initializing,
                               content |-> IF req[r].bot_instance # 0 /\ bot_initializer.initialized
                                           THEN Some(get_stats(Value(heap[req[r].bot_instance])))
                                           ELSE Nothing])]
    /\ UNCHANGED <<initialization_lock, is_initializing, bot_initializer, heap, thr,
                   response_cache, now>>
    /\ AppFrame

\* init_bot, lines 264-284.
InitBot(r) ==
    /\ req[r].pc = "init"
    /\ IF is_initializing
       THEN /\ req' = [req EXCEPT ![r].pc = "done", ![r].reply = Reply("init_info", <<>>)]
            /\ UNCHANGED thr
       ELSE /\ req' = [req EXCEPT ![r].pc = "done", ![r].reply = Reply("init_started", <<>>)]
            /\ thr' = Spawned(r)
    /\ UNCHANGED <<initialization_lock, is_initializing, bot_initializer, heap, response_cache, now>>
    /\ AppFrame

\* The clock.
Tick ==
    /\ now < MaxTime
    /\ now' = now + 1
    /\ UNCHANGED <<initialization_lock, is_initializing, bot_initializer, heap, thr, req,
                   response_cache>>
    /\ AppFrame

\* A lock that is always granted.
LockAlwaysFree(l) == TRUE

\* threading.Lock: free when no thread holds it.
LockFree(l) == l = 0

\* initialize, line 41: `with initialization_lock` is entered.
Acquire(t) ==
    /\ thr[t].pc = "lock"
    /\ LockFree(initialization_lock)
    /\ initialization_lock' = t
    /\ thr' = [thr EXCEPT ![t].pc = "check"]
    /\ UNCHANGED <<is_initializing, bot_initializer, heap, req, response_cache, now>>
    /\ AppFrame

\* Lines 42-43: `if self.initialized or is_initializing: return self.bot`
Check(t) ==
    /\ thr[t].pc = "check"
    /\ thr' = [thr EXCEPT ![t].pc =
                 IF bot_initializer.initialized \/ is_initializing THEN "release" ELSE "flag"]
    /\ UNCHANGED <<initialization_lock, is_initializing, bot_initializer, heap, req,
                   response_cache, now>>
    /\ AppFrame

\* Line 45: is_initializing = True
SetFlag(t) ==
    /\ thr[t].pc = "flag"
    /\ is_initializing' = TRUE
    /\ thr' = [thr EXCEPT ![t].pc = "construct", ![t].ran = TRUE]
    /\ UNCHANGED <<initialization_lock, bot_initializer, heap, req, response_cache, now>>
    /\ AppFrame

\* Line 67: self.bot = WebsiteChatbot(links)
Construct(t) ==
    /\ thr[t].pc = "construct"
    /\ heap' = [heap EXCEPT ![t] = Some(FreshBot(AppLinks))]
    /\ bot_initializer' = [bot_initializer EXCEPT !.bot = t]
    /\ thr' = [thr EXCEPT ![t].pc = "load", ![t].i = 1]
    /\ UNCHANGED <<initialization_lock, is_initializing, req, response_cache, now>>
    /\ AppFrame

\* Line 71, load_data: one iteration of its loop over self.urls.
BuildUrl(t) ==
    /\ thr[t].pc = "load" /\ thr[t].i <= Len(AppLinks)
    /\ \E ok \in BOOLEAN :
         LET st == LoadOne([bot |-> Value(heap[t]), all_chunks |-> thr[t].all_chunks,
                            failed_urls |-> thr[t].failed_urls],
                           RouteSite, AppLinks[thr[t].i], ok) IN
         /\ heap' = [heap EXCEPT ![t] = Some(st.bot)]
         /\ thr' = [thr EXCEPT ![t].i = @ + 1,
                               ![t].all_chunks = st.all_chunks,
                               ![t].failed_urls = st.failed_urls,
                               ![t].net = IF scrape_website(Value(heap[t]), RouteSite,
                                                            AppLinks[thr[t].i], ok).fetched
                                          THEN Append(@, AppLinks[thr[t].i]) ELSE @]
    /\ UNCHANGED <<initialization_lock, is_initializing, bot_initializer, req, response_cache, now>>
    /\ AppFrame

\* load_data, lines 327-361: self.chunks = unique_chunks, and the exception
\* when there is none.
BuildDedup(t) ==
    /\ thr[t].pc = "load" /\ thr[t].i > Len(AppLinks)
    /\ heap' = [heap EXCEPT ![t] = Some(AfterChunks(Value(heap[t]), thr[t].all_chunks))]
    /\ thr' = IF Len(unique_chunks(thr[t].all_chunks)) = 0
              THEN [thr EXCEPT ![t].pc = "except", ![t].exc = NoContent]
              ELSE [thr EXCEPT ![t].pc = "fit"]
    /\ UNCHANGED <<initialization_lock, is_initializing, bot_initializer, req, response_cache, now>>
    /\ AppFrame

\* load_data, line 365: the fit, or its ValueError.
BuildFit(t) ==
    /\ thr[t].pc = "fit"
    /\ IF FitRaises(Value(heap[t]).chunks)
       THEN /\ thr' = [thr EXCEPT ![t].pc = "except", ![t].exc = FitError]
            /\ UNCHANGED heap
       ELSE /\ thr' = [thr EXCEPT ![t].pc = "test"]
            /\ heap' = [heap EXCEPT ![t] = Some(AfterFit(Value(heap[t])))]
    /\ UNCHANGED <<initialization_lock, is_initializing, bot_initializer, req, response_cache, now>>
    /\ AppFrame

TestFailed == "Bot failed to generate test response"

\* Lines 74-79: test_response = self.bot.generate_response("Hello")
BuildTest(t) ==
    /\ thr[t].pc = "test"
    /\ \E a \in generate_response(Value(heap[bot_initializer.bot]), <<"Hello">>) :
         /\ heap' = [heap EXCEPT ![bot_initializer.bot] = Some(a.bot)]
         /\ thr' = IF a.raised \/ a.response.kind = ""
                   THEN [thr EXCEPT ![t].pc = "except", ![t].exc = TestFailed]
                   ELSE [thr EXCEPT ![t].pc = "succeed"]
    /\ UNCHANGED <<initialization_lock, is_initializing, bot_initializer, req, response_cache, now>>
    /\ AppFrame

\* Line 81: self.initialized = True
Succeed(t) ==
    /\ thr[t].pc = "succeed"
    /\ bot_initializer' = [bot_initializer EXCEPT !.initialized = TRUE]
    /\ thr' = [thr EXCEPT ![t].pc = "stamp", ![t].succeeded = TRUE]
    /\ UNCHANGED <<initialization_lock, is_initializing, heap, req, response_cache, now>>
    /\ AppFrame

\* Line 82: self.initialization_time = datetime.now()
SetInitializationTime(t) ==
    /\ thr[t].pc = "stamp"
    /\ bot_initializer' = [bot_initializer EXCEPT !.initialization_time = Some(now)]
    /\ thr' = [thr EXCEPT ![t].pc = "clear"]
    /\ UNCHANGED <<initialization_lock, is_initializing, heap, req, response_cache, now>>
    /\ AppFrame

\* Line 83: self.error = None
ClearError(t) ==
    /\ thr[t].pc = "clear"
    /\ bot_initializer' = [bot_initializer EXCEPT !.error = None]
    /\ thr' = [thr EXCEPT ![t].pc = "finally"]
    /\ UNCHANGED <<initialization_lock, is_initializing, heap, req, response_cache, now>>
    /\ AppFrame

\* Lines 85-88: self.error = str(e); self.bot = None
Except(t) ==
    /\ thr[t].pc = "except"
    /\ bot_initializer' = [bot_initializer EXCEPT !.error = thr[t].exc, !.bot = 0]
    /\ thr' = [thr EXCEPT ![t].pc = "finally"]
    /\ UNCHANGED <<initialization_lock, is_initializing, heap, req, response_cache, now>>
    /\ AppFrame

\* Line 90: is_initializing = False
Finally(t) ==
    /\ thr[t].pc = "finally"
    /\ is_initializing' = FALSE
    /\ thr' = [thr EXCEPT ![t].pc = "release"]
    /\ UNCHANGED <<initialization_lock, bot_initializer, heap, req, response_cache, now>>
    /\ AppFrame

\* The with block is left, and initialize returns.
Release(t) ==
    /\ thr[t].pc = "release"
    /\ initialization_lock' = 0
    /\ thr' = [thr EXCEPT ![t].pc = "done"]
    /\ UNCHANGED <<is_initializing, bot_initializer, heap, req, response_cache, now>>
    /\ AppFrame

(***************************************************************************)
(* Specifications                                                          *)
(***************************************************************************)
ChunkNext == SplitEmpty \/ SplitStep \/ SplitFlush

InitChunk == ChunkInit /\ LoadIdle /\ RetrIdle /\ RouteIdle /\ AppInit

SpecChunk == InitChunk /\ [][ChunkNext]_vars

LoadNext == LoadUrl \/ LoadDedup \/ LoadFit

InitLoad == LoadInit /\ ChunkIdle /\ RetrIdle /\ RouteIdle /\ AppInit

SpecLoad == InitLoad /\ [][LoadNext]_vars

RetrNext == RetrieveUnbuilt \/ RetrieveRank \/ RetrieveLoop \/ RetrieveReturn

InitRetrieve == RetrInit /\ ChunkIdle /\ RouteIdle /\ AppInit

SpecRetrieve == InitRetrieve /\ [][RetrNext]_vars

RouteNext == Respond \/ AskAgain

InitRoute == RouteInit /\ ChunkIdle /\ RetrIdle /\ AppInit

SpecRoute == InitRoute /\ [][RouteNext]_vars

Next ==
    \/ \E r \in Reqs :
          \/ ChatArrive(r) \/ CallerArrive(r) \/ InitArrive(r) \/ ClearCache(r)
          \/ GetBot(r) \/ GetBotReturn(r)
          \/ ChatNoBot(r) \/ ChatGenerate(r) \/ Health(r) \/ Stats(r) \/ InitBot(r)
    \/ \E t \in Reqs :
          \/ Acquire(t) \/ Check(t) \/ SetFlag(t) \/ Construct(t)
          \/ BuildUrl(t) \/ BuildDedup(t) \/ BuildFit(t) \/ BuildTest(t)
          \/ Succeed(t) \/ SetInitializationTime(t) \/ ClearError(t)
          \/ Except(t) \/ Finally(t) \/ Release(t)
    \/ Tick

Init == AppInit /\ ChunkIdle /\ LoadIdle /\ RetrIdle /\ RouteIdle

Spec == Init /\ [][Next]_vars

(***************************************************************************)
(* Claims about the chunker                                                *)
(***************************************************************************)
\* The sentences of a chunk are consecutive among the sentences the loop kept.
ConsecutiveKept(text, c) ==
    \A j \in 1..(Len(c) - 1) :
        /\ c[j] < c[j + 1]
        /\ \A m \in (c[j] + 1)..(c[j + 1] - 1) : SkippedSentence(text[m])

\* C10: every chunk split_chunks returns has a word count in
\* [min_len, max_len], is made of at most 3 consecutive sentences and passes
\* is_meaningful_content.
C10_ChunkBounds ==
    sc_pc = "done" =>
        \A n \in 1..Len(sc_chunks) :
            LET c == sc_chunks[n] IN
            /\ ChunkWords(sc_text, c) >= sc_min
            /\ ChunkWords(sc_text, c) <= sc_max
            /\ Len(c) <= MaxSentencesPerChunk
            /\ ConsecutiveKept(sc_text, c)
            /\ is_meaningful_content(sc_text, c)

\* What does hold of the chunks: every part of C10 but the ceiling.
C10_AllButCeiling ==
    sc_pc = "done" =>
        \A n \in 1..Len(sc_chunks) :
            LET c == sc_chunks[n] IN
            /\ ChunkWords(sc_text, c) >= sc_min
            /\ Len(c) <= MaxSentencesPerChunk
            /\ ConsecutiveKept(sc_text, c)
            /\ is_meaningful_content(sc_text, c)
            /\ (Len(c) > 1 => ChunkWords(sc_text, c) <= sc_max)

(***************************************************************************)
(* Claims about the corpus builder                                         *)
(***************************************************************************)
\* C7: a build fails only when the unique-chunk count after aggregation is
\* zero: whenever at least one chunk remains after deduplication, load_data
\* completes with the index fitted.
C7_FailsOnlyWhenEmpty ==
    /\ ld_pc = "raised" => Len(unique_chunks(all_chunks)) = 0
    /\ (ld_pc \in {"done", "raised"} /\ Len(bot.chunks) >= 1)
           => (ld_pc = "done" /\ bot.tfidf_matrix # Nothing)

(***************************************************************************)
(* Claims about the retriever                                              *)
(***************************************************************************)
\* C1: retrieve_relevant_chunks(q, k, min_score) returns at most k results,
\* each with a score of min_score or more, in non-increasing score order.
C1_AtMostKSortedAboveFloor ==
    rt_pc = "done" =>
        /\ Len(results) <= rt_k
        /\ \A n \in 1..Len(results) : results[n].score >= rt_min
        /\ \A n \in 1..(Len(results) - 1) : results[n].score >= results[n + 1].score

\* What does hold for every k: the floor and the order, and the size for k >= 1.
C1_HoldsForPositiveK ==
    rt_pc = "done" =>
        /\ (rt_k >= 1 => Len(results) <= rt_k)
        /\ Len(results) <= (IF rt_k >= 1 THEN rt_k ELSE 1)
        /\ \A n \in 1..Len(results) : results[n].score >= rt_min
        /\ \A n \in 1..(Len(results) - 1) : results[n].score >= results[n + 1].score

\* C13: on a built corpus, a retrieval (k >= 1) whose query is the verbatim
\* text of a retained chunk returns that chunk first, with a score at or
\* above min_score.
C13_RoundTrip ==
    (rt_pc = "done" /\ ~(bot.tfidf_matrix = Nothing \/ Len(bot.chunks) = 0) /\ rt_k >= 1) =>
        \A i \in 1..Len(bot.chunks) :
            rt_query = TermsOf(bot.chunks[i]) =>
                /\ results # <<>>
                /\ results[1].chunk = bot.chunks[i]
                /\ results[1].score >= rt_min

\* C16: chunks with equal similarity come in original chunk order: among the
\* results the lower index is first, and a chunk is returned only if every
\* lower-indexed chunk of the same score is returned too.
C16_TiesInChunkOrder ==
    (rt_pc = "done" /\ ~(bot.tfidf_matrix = Nothing \/ Len(bot.chunks) = 0) /\ rt_k >= 1) =>
        /\ \A n \in 1..(Len(results) - 1) :
               results[n].score = results[n + 1].score => results[n].idx < results[n + 1].idx
        /\ \A n \in 1..Len(results) : \A i \in 1..(results[n].idx - 1) :
               similarities[i] = results[n].score => \E o \in 1..Len(results) : results[o].idx = i

(***************************************************************************)
(* Claims about the response generator                                     *)
(***************************************************************************)
\* The rule a response kind belongs to.
RuleOfKind(kind) ==
    CASE kind \in {"greeting", "farewell", "gratitude", "pricing"} -> kind
      [] kind \in {"services_default", "services_list"} -> "services"
      [] kind \in {"about_default", "about_list"} -> "about"
      [] kind \in {"projects_default", "projects_list"} -> "projects"
      [] kind = "contact_list" -> "contact"
      [] kind \in {"clarify", "not_found", "retrieval"} -> "retrieval"
      [] OTHER -> "none"

\* The rules a text matches, each stated on its own.
Matches(rule, text) ==
    CASE rule = "greeting" -> AnyStartsWith(text, Greetings)
      [] rule = "farewell" -> AnyContains(text, Farewells)
      [] rule = "gratitude" -> AnyContains(text, GratitudePhrases)
      [] rule = "services" -> AnyContains(text, service_queries)
      [] rule = "about" -> AnyContains(text, about_queries)
      [] rule = "projects" -> AnyContains(text, project_queries)
      [] rule = "contact" -> AnyContains(text, contact_queries)
      [] rule = "pricing" -> AnyContains(text, pricing_queries)
      [] rule = "retrieval" -> TRUE

Priority ==
    <<"greeting", "farewell", "gratitude", "services", "about", "projects", "contact",
      "pricing", "retrieval">>

\* C6: the response comes from the first rule, in the order greeting,
\* farewell, gratitude, services, about, projects, contact, pricing,
\* retrieval, that the message matches; a message that starts with a greeting
\* token gets the greeting whatever category keyword it also contains.
C6_FirstMatchingRuleWins ==
    (gr_pc = "done" /\ ~gr_out.raised) =>
        LET text == LowerText(gr_msg) IN
        /\ \E n \in 1..Len(Priority) :
              /\ RuleOfKind(gr_out.response.kind) = Priority[n]
              /\ Matches(Priority[n], text)
              /\ \A m \in 1..(n - 1) : ~Matches(Priority[m], text)
        /\ AnyStartsWith(text, Greetings) => gr_out.response.kind = "greeting"

\* A message that starts with a greeting token and contains a services
\* keyword has been answered.
C6_Witness ==
    /\ gr_pc = "done"
    /\ gr_msg = <<"Hello", "services">>
    /\ gr_out.response.kind = "greeting"

\* C9: generate_response never raises and always returns a non-empty
\* response, whatever the message and whatever the state of the bot (never
\* loaded, inside load_data, loaded, left by a failed load_data); on an
\* unbuilt index a message no earlier rule answers gets the clarifying
\* message when it has under 3 words and the not-found template otherwise.
C9_NeverRaisesNeverEmpty ==
    gr_pc = "done" =>
        /\ ~gr_out.raised
        /\ gr_out.response.kind \notin {"", "none"}
        /\ ( /\ bot.tfidf_matrix = Nothing \/ Len(bot.chunks) = 0
             /\ \A n \in 1..(Len(Priority) - 1) : ~Matches(Priority[n], LowerText(gr_msg)) )
               => gr_out.response.kind =
                     (IF Len(LowerText(gr_msg)) < 3 THEN "clarify" ELSE "not_found")

\* A three-word question has been put to a bot that load_data left with
\* chunks and no matrix, and got the not-found template.
C9_Witness ==
    /\ gr_pc = "done"
    /\ Len(bot.chunks) > 0 /\ bot.tfidf_matrix = Nothing
    /\ gr_msg = <<"widget", "web", "brand">>
    /\ gr_out.response.kind = "not_found"

(***************************************************************************)
(* Claims about the serving process                                        *)
(***************************************************************************)
\* A thread is executing the load pipeline of initialize: it has set
\* is_initializing and has not left load_data.
InPipeline(t) == thr[t].pc \in {"construct", "load", "fit"}

\* The message is empty or whitespace only.
BlankMessage(m) == \A i \in 1..Len(m) : m[i] = " "

\* A chat request with a non-empty message that was not served from the cache
\* has been answered.
Answered(r) ==
    /\ req[r].kind = "chat" /\ req[r].pc = "done"
    /\ ~BlankMessage(req[r].msg) /\ req[r].reply.kind # "cached"

\* C2: from the start of a build until it has completed, no chat request is
\* answered by generate_response on the bot that load_data is filling.
C2_NoQueryOnBotBeingBuilt == \A r \in Reqs : ~req[r].partial

\* C3: a non-empty, uncached chat message is answered 'unavailable' only
\* after some build has failed, with the generated response only once a build
\* has succeeded, and 'initializing' only while none has.
C3_ReplyReflectsLifecycle ==
    \A r \in Reqs : Answered(r) =>
        /\ req[r].reply.kind \in {"initializing", "unavailable", "generated"}
        /\ req[r].reply.kind = "unavailable" => req[r].failedBefore
        /\ req[r].reply.kind = "generated" => req[r].readyAt
        /\ req[r].reply.kind = "initializing" => ~req[r].readyAt

\* C4: no two threads are inside the load pipeline of initialize at once.
C4_AtMostOneBuild ==
    \A t1, t2 \in Reqs : t1 # t2 => ~(InPipeline(t1) /\ InPipeline(t2))

\* One initializer thread is inside the pipeline and another one waits for
\* the lock.
C4_Witness ==
    \E t1, t2 \in Reqs : t1 # t2 /\ InPipeline(t1) /\ thr[t2].pc = "lock"

\* C5: a request that came in while is_initializing was set never has a
\* build run by a thread of its own, now or after the running build ends.
C5_ConcurrentRequestStartsNoBuild == \A r \in Reqs : req[r].during => ~thr[r].ran

\* C8: a build in which every fetch fails raises the corpus-empty error; its
\* bot has no chunks and no vocabulary; the initializer leaves with
\* initialized false, is_initializing false, error set and no bot; a chat
\* request that finds the system so is answered 'unavailable'.
C8_EmptyCorpusLeavesUnbuilt ==
    /\ \A t \in Reqs :
          ( /\ thr[t].pc \in {"except", "finally", "release", "done"}
            /\ Len(thr[t].failed_urls) = Len(AppLinks) )
          => /\ thr[t].exc = NoContent
             /\ get_stats(Value(heap[t])).total_chunks = 0
             /\ get_stats(Value(heap[t])).vectorizer_vocab_size = 0
    /\ \A t \in Reqs :
          (thr[t].pc = "release" /\ thr[t].exc = NoContent)
          => /\ ~bot_initializer.initialized
             /\ ~is_initializing
             /\ bot_initializer.error = NoContent
             /\ bot_initializer.bot = 0
    /\ \A r \in Reqs :
          (Answered(r) /\ req[r].afterEmpty) => req[r].reply.kind = "unavailable"

\* The parts of C8 about the state an empty-corpus build leaves: the
\* corpus-empty error, no chunks, no vocabulary, and an initializer left with
\* initialized false, is_initializing false, error set and no bot.
C8_UnbuiltStateHolds ==
    /\ \A t \in Reqs :
          ( /\ thr[t].pc \in {"except", "finally", "release", "done"}
            /\ Len(thr[t].failed_urls) = Len(AppLinks) )
          => /\ thr[t].exc = NoContent
             /\ get_stats(Value(heap[t])).total_chunks = 0
             /\ get_stats(Value(heap[t])).vectorizer_vocab_size = 0
    /\ \A t \in Reqs :
          (thr[t].pc = "release" /\ thr[t].exc = NoContent)
          => /\ ~bot_initializer.initialized
             /\ ~is_initializing
             /\ bot_initializer.error = NoContent
             /\ bot_initializer.bot = 0

(***************************************************************************)
(* Claims about the deduplication of load_data                             *)
(***************************************************************************)
\* The chunks of the pages load_data got, each distinct page content taken
\* once, in the order of the URL list.
RECURSIVE OnceContent(_, _)
OnceContent(urls, seenPages) ==
    IF urls = <<>> THEN <<>>
    ELSE IF bot.url_content_cache[Head(urls)] = Nothing \/ site[Head(urls)] \in seenPages
         THEN OnceContent(Tail(urls), seenPages)
         ELSE site[Head(urls)].chunks
                  \o OnceContent(Tail(urls), seenPages \cup {site[Head(urls)]})

\* The first position of all_chunks that holds c's normalised text.
FirstPos(c) ==
    CHOOSE n \in 1..Len(all_chunks) :
        /\ Normalized(all_chunks[n]) = Normalized(c)
        /\ \A m \in 1..(n - 1) : Normalized(all_chunks[m]) # Normalized(c)

\* C11: page content fed twice (a URL listed twice, or two URLs serving the
\* same content) leaves as many unique chunks as the content fed once; no two
\* retained chunks are equal after normalisation; the retained chunks are the
\* first occurrences, in their order.
C11_DedupIdempotent ==
    ld_pc \in {"fit", "done", "raised"} =>
        /\ Len(bot.chunks) = Len(unique_chunks(OnceContent(bot.urls, {})))
        /\ \A i, j \in 1..Len(bot.chunks) :
              i < j => Normalized(bot.chunks[i]) # Normalized(bot.chunks[j])
        /\ \A i \in 1..Len(bot.chunks) : all_chunks[FirstPos(bot.chunks[i])] = bot.chunks[i]
        /\ \A i, j \in 1..Len(bot.chunks) :
              i < j => FirstPos(bot.chunks[i]) < FirstPos(bot.chunks[j])

\* A list naming one URL twice has been loaded, both times with content, and
\* the repeated chunks are gone.
C11_Witness ==
    /\ ld_pc = "done"
    /\ \E i, j \in 1..Len(bot.urls) : i < j /\ bot.urls[i] = bot.urls[j]
    /\ failed_urls = <<>>
    /\ 0 < Len(bot.chunks) /\ Len(bot.chunks) < Len(all_chunks)

(***************************************************************************)
(* Claims about the bot after its build                                    *)
(***************************************************************************)
\* C12: on a bot whose build has completed, no call of generate_response
\* changes chunks, tfidf_matrix, content_map or structured_data, and
\* get_stats gives the same values before and after it.
C12_ReadOnlyAfterBuild ==
    [][ (gr_pc = "call" /\ bot.tfidf_matrix # Nothing)
            => /\ bot'.chunks = bot.chunks
               /\ bot'.tfidf_matrix = bot.tfidf_matrix
               /\ bot'.content_map = bot.content_map
               /\ bot'.structured_data = bot.structured_data
               /\ get_stats(bot') = get_stats(bot) ]_vars

(***************************************************************************)
(* Claims about the chat handler and the response cache                    *)
(***************************************************************************)
\* C14: a chat request whose message is empty or whitespace only is answered
\* 'Please enter a message.' in every lifecycle state, and the step that
\* answers it leaves the response cache, the initializer threads, the
\* initializer and the bots as they were.
C14_BlankMessageShortCircuits ==
    [][ \A r \in Reqs :
          (req[r].pc = "new" /\ req'[r].kind = "chat" /\ BlankMessage(req'[r].msg))
          => /\ req'[r].pc = "done"
             /\ req'[r].reply = Reply("enter_message", <<>>)
             /\ response_cache' = response_cache
             /\ thr' = thr
             /\ heap' = heap
             /\ bot_initializer' = bot_initializer
             /\ is_initializing' = is_initializing ]_vars

\* A whitespace-only message has been answered while a build was running.
C14_Witness ==
    \E r \in Reqs :
        /\ req[r].kind = "chat" /\ req[r].pc = "done"
        /\ req[r].msg = <<" ">>
        /\ req[r].during
        /\ req[r].reply.kind = "enter_message"

\* C17: after a completed build no structured-category collection holds the
\* same string twice, whatever pages were loaded.
C17_CategoriesHoldNoDuplicate ==
    ld_pc = "done" =>
        \A n \in 1..Len(Categories) :
            LET list == bot.structured_data[Categories[n]] IN
            \A i, j \in 1..Len(list) : list[i] = list[j] => i = j

\* The URL of the first page, in the order of the URL list, whose text gave
\* the chunk c.
FirstSource(c) ==
    LET n == CHOOSE n \in 1..Len(bot.urls) :
                 /\ bot.url_content_cache[bot.urls[n]] # Nothing
                 /\ InSeq(c, site[bot.urls[n]].chunks)
                 /\ \A m \in 1..(n - 1) :
                        ~(/\ bot.url_content_cache[bot.urls[m]] # Nothing
                          /\ InSeq(c, site[bot.urls[m]].chunks))
    IN  bot.urls[n]

\* C18: after a build every retained chunk has an entry in content_map, and
\* the entry is the URL of the first page in input order that gave the chunk.
C18_ProvenanceIsFirstSource ==
    ld_pc = "done" =>
        \A i \in 1..Len(bot.chunks) :
            /\ bot.content_map[bot.chunks[i]] # None
            /\ bot.content_map[bot.chunks[i]] = FirstSource(bot.chunks[i])

(***************************************************************************)
(* Claims about the ready state                                            *)
(***************************************************************************)
\* No thread is, or comes to be, in the build of lines 45-79.
NoBuildStep ==
    \A t \in Reqs :
        /\ thr'[t].ran = thr[t].ran
        /\ thr'[t].net = thr[t].net
        /\ thr'[t].pc \notin {"flag", "construct", "load", "fit", "test", "succeed", "except"}

\* C19: once bot_initializer.initialized is true, under every later step of
\* chat, health, stats and init requests and their threads, initialized stays
\* true, bot_initializer.bot stays the same non-null instance, error is None,
\* and no build runs.
C19_ReadyIsAbsorbing ==
    [][bot_initializer.initialized =>
          /\ bot_initializer'.initialized
          /\ bot_initializer.bot # 0 /\ bot_initializer'.bot = bot_initializer.bot
          /\ bot_initializer.error = None /\ bot_initializer'.error = None
          /\ NoBuildStep]_vars

\* What does hold: initialized, the instance and the absence of builds; error
\* is None from line 83 on.
C19_ReadyButForError ==
    [][bot_initializer.initialized =>
          /\ bot_initializer'.initialized
          /\ bot_initializer.bot # 0 /\ bot_initializer'.bot = bot_initializer.bot
          /\ (\A t \in Reqs : thr[t].pc \notin {"stamp", "clear"})
                 => (bot_initializer.error = None /\ bot_initializer'.error = None)
          /\ NoBuildStep]_vars

(***************************************************************************)
(* Claims about the response cache                                         *)
(***************************************************************************)
\* Request r1 was answered by generate_response, for message key k, with
\* the response resp, on a bot whose build had succeeded and was not running.
GeneratedWhenReady(r1, k, resp) ==
    /\ req[r1].kind = "chat" /\ req[r1].pc = "done"
    /\ req[r1].reply = Reply("generated", resp)
    /\ LowerText(Strip(req[r1].msg)) = k
    /\ req[r1].readyAt /\ ~req[r1].partial

\* C20: a reply served from the cache was stored less than CACHE_TTL before
\* the hit, under the same lower-cased message, and was generated by a bot
\* whose build had succeeded; no reply computed while the build was running
\* and no status reply is in the cache.
C20_CacheHoldsRepliesOfReadyBot ==
    [][ /\ \A r \in Reqs :
             (req[r].pc = "new" /\ req'[r].reply.kind = "cached") =>
                 LET k == LowerText(Strip(req'[r].msg)) IN
                 /\ response_cache[k] # Nothing
                 /\ now - Value(response_cache[k]).cached_time < CACHE_TTL
                 /\ req'[r].reply.body = Some(Value(response_cache[k]).response)
                 /\ \E r1 \in Reqs \ {r} : GeneratedWhenReady(r1, k, Value(response_cache[k]).response)
        /\ \A k \in CacheKeys :
             response_cache[k] # Nothing =>
                 \E r1 \in Reqs : GeneratedWhenReady(r1, k, Value(response_cache[k]).response)
      ]_vars

\* What does hold of a hit: the key, the age and the reply of the entry, which
\* some chat request's generate_response produced.
C20_HitServesFreshEntry ==
    [][ \A r \in Reqs :
             (req[r].pc = "new" /\ req'[r].reply.kind = "cached") =>
                 LET k == LowerText(Strip(req'[r].msg)) IN
                 /\ response_cache[k] # Nothing
                 /\ now - Value(response_cache[k]).cached_time < CACHE_TTL
                 /\ req'[r].reply.body = Some(Value(response_cache[k]).response)
                 /\ \E r1 \in Reqs \ {r} :
                        /\ req[r1].reply = Reply("generated", Value(response_cache[k]).response)
                        /\ LowerText(Strip(req[r1].msg)) = k
      ]_vars

\* The network requests for url made so far, over all builds.
NetworkCalls(url) ==
    SumSeq([t \in Reqs |-> Cardinality({n \in 1..Len(thr[t].net) : thr[t].net[n] = url})])

\* C15: within the life of the process each URL is requested over the
\* network at most once, whatever builds are attempted.
C15_EachUrlFetchedOnce == \A url \in URLs : NetworkCalls(url) <= 1

====
